---------------------------- MODULE Spec2Model ----------------------------
(***************************************************************************)
(* A model of cyclus_input_gen/from_pris.py: the from_pris pipeline that   *)
(* reads a reactor table, normalises its dates, derives entry time and     *)
(* lifetime per reactor, renders the reactor and region fragments and      *)
(* writes the assembled document.                                          *)
(*                                                                         *)
(* Strings that the code inspects character by character (dates, status,   *)
(* reactor names) are sequences of one-character strings; strings the code *)
(* only compares or passes on (country, type) are TLA+ strings.            *)
(***************************************************************************)
EXTENDS Integers, Sequences, FiniteSets, TLC

VARIABLES
    csv_file,       \* the rows of the csv file, as np.genfromtxt yields them
    init_date,      \* self.init_date (yyyymmdd)
    country_list,   \* self.country_list
    reactor_data,   \* self.reactor_data
    reactor_str,    \* self.reactor_str: the fragments appended, in order
    region_str,     \* self.region_str: the country fragments, in order
    done_generic,   \* self.done_generic
    output_file,    \* the content of the file at self.output_file
    pc,             \* position of __init__
    err,            \* the exception that ended the run, "none" if none
    runs,           \* number of the current run of the pipeline
    prev_output,    \* what the previous run left in output_file
    date_string,    \* argument of a direct call of std_date_format
    date            \* its result

vars == <<csv_file, init_date, country_list, reactor_data, reactor_str,
          region_str, done_generic, output_file, pc, err, runs, prev_output,
          date_string, date>>

-----------------------------------------------------------------------------
(* Bounds of the model.                                                    *)

\* rows of the csv file
MaxRows == 2
\* runs of the pipeline on the same input
MaxRuns == 2
\* length of the strings over DateAlphabet handed to std_date_format
MaxStrLen == 3

-----------------------------------------------------------------------------
(* Character strings.                                                      *)

Digits == <<"0", "1", "2", "3", "4", "5", "6", "7", "8", "9">>

UpperCase == <<"A", "B", "C", "D", "E", "F", "G", "H", "I", "J", "K", "L", "M",
               "N", "O", "P", "Q", "R", "S", "T", "U", "V", "W", "X", "Y", "Z">>

LowerCase == <<"a", "b", "c", "d", "e", "f", "g", "h", "i", "j", "k", "l", "m",
               "n", "o", "p", "q", "r", "s", "t", "u", "v", "w", "x", "y", "z">>

IsDigit(c) == \E i \in 1..10 : Digits[i] = c

DigitVal(c) == (CHOOSE i \in 1..10 : Digits[i] = c) - 1

AllDigits(s) == \A i \in 1..Len(s) : IsDigit(s[i])

\* the value of a string of decimal digits (0 for the empty string)
RECURSIVE DigitsVal(_)
DigitsVal(s) ==
    IF s = <<>> THEN 0
    ELSE 10 * DigitsVal(SubSeq(s, 1, Len(s) - 1)) + DigitVal(s[Len(s)])

\* str.lower() of one character
LowerChar(c) ==
    IF \E i \in 1..26 : UpperCase[i] = c
    THEN LowerCase[CHOOSE i \in 1..26 : UpperCase[i] = c]
    ELSE c

\* str.lower()
Lower(s) == [i \in 1..Len(s) |-> LowerChar(s[i])]

\* sub in s
Contains(sub, s) ==
    \E i \in 1..(Len(s) - Len(sub) + 1) : SubSeq(s, i, i + Len(sub) - 1) = sub

\* s.count(c) for a character c
Count(s, c) == Cardinality({i \in 1..Len(s) : s[i] = c})

\* positions of the character c in s, ascending
RECURSIVE Positions(_, _, _)
Positions(s, c, from) ==
    IF from > Len(s) THEN <<>>
    ELSE IF s[from] = c THEN <<from>> \o Positions(s, c, from + 1)
    ELSE Positions(s, c, from + 1)

\* int(s) of Python on a string: an optional sign, then one or more digits
\* (anything else raises ValueError)
IntOk(s) ==
    /\ s # <<>>
    /\ LET body == IF s[1] \in {"-", "+"} THEN Tail(s) ELSE s
       IN  body # <<>> /\ AllDigits(body)

IntVal(s) ==
    IF s[1] = "-" THEN 0 - DigitsVal(Tail(s))
    ELSE IF s[1] = "+" THEN DigitsVal(Tail(s))
    ELSE DigitsVal(s)

-----------------------------------------------------------------------------
(* datetime.strptime(s, '%m/%d/%Y') and strftime('%Y%m%d').                *)

IsLeap(y) == (y % 4 = 0 /\ y % 100 # 0) \/ y % 400 = 0

DaysInMonth(y, m) ==
    IF m = 2 THEN (IF IsLeap(y) THEN 29 ELSE 28)
    ELSE IF m \in {4, 6, 9, 11} THEN 30 ELSE 31

\* %m: 1[0-2] | 0[1-9] | [1-9]
MonthFieldOk(f) ==
    /\ Len(f) \in {1, 2} /\ AllDigits(f)
    /\ DigitsVal(f) \in 1..12

\* %d: 3[01] | [12]\d | 0[1-9] | [1-9]
DayFieldOk(f) ==
    /\ Len(f) \in {1, 2} /\ AllDigits(f)
    /\ DigitsVal(f) \in 1..31

\* %Y: \d\d\d\d, and datetime needs MINYEAR = 1 <= year
YearFieldOk(f) == Len(f) = 4 /\ AllDigits(f) /\ DigitsVal(f) >= 1

\* the three fields of a string that holds exactly two '/'
SlashFields(s) ==
    LET p == Positions(s, "/", 1)
    IN  <<SubSeq(s, 1, p[1] - 1), SubSeq(s, p[1] + 1, p[2] - 1),
          SubSeq(s, p[2] + 1, Len(s))>>

\* strptime raises ValueError unless this holds
StrptimeOk(s) ==
    LET f == SlashFields(s)
    IN  /\ MonthFieldOk(f[1]) /\ DayFieldOk(f[2]) /\ YearFieldOk(f[3])
        /\ DigitsVal(f[2]) <= DaysInMonth(DigitsVal(f[3]), DigitsVal(f[1]))

\* int(obj.strftime('%Y%m%d'))
StrftimeInt(s) ==
    LET f == SlashFields(s)
    IN  DigitsVal(f[3]) * 10000 + DigitsVal(f[1]) * 100 + DigitsVal(f[2])

-----------------------------------------------------------------------------
(* from_pris.std_date_format: [ok |-> TRUE, val |-> the int returned] or   *)
(* [ok |-> FALSE, val |-> 0] when the call raises ValueError.              *)

Raised == [ok |-> FALSE, val |-> 0]

Returned(v) == [ok |-> TRUE, val |-> v]

std_date_format(s) ==
    IF Count(s, "/") = 2
    THEN (IF StrptimeOk(s) THEN Returned(StrftimeInt(s)) ELSE Raised)
    ELSE IF Len(s) = 4
    THEN (LET t == s \o <<"0", "1", "0", "1">>
          IN  IF IntOk(t) THEN Returned(IntVal(t)) ELSE Raised)
    ELSE IF s = <<>> THEN Returned(-1)
    ELSE IF IntOk(s) THEN Returned(IntVal(s)) ELSE Raised

-----------------------------------------------------------------------------
(* from_pris.get_ymd, calc_dmonth, get_entrytime, get_lifetime.            *)

\* get_ymd: <<year, month>>, the month one more when the day is above 16
get_ymd(yyyymmdd) ==
    LET year  == yyyymmdd \div 10000
        month == (yyyymmdd \div 100) % 100
        day   == yyyymmdd % 100
    IN  <<year, IF day > 16 THEN month + 1 ELSE month>>

calc_dmonth(yi, mi, yf, mf) == 12 * (yf - yi) + (mf - mi)

get_entrytime(init, start_date) ==
    LET i == get_ymd(init)
        s == get_ymd(start_date)
    IN  calc_dmonth(i[1], i[2], s[1], s[2])

\* get_lifetime that takes the month of the end date without the rounding
get_lifetime_NoRounding(start_date, end_date) ==
    IF end_date # -1
    THEN LET s == get_ymd(start_date)
         IN  calc_dmonth(s[1], s[2], end_date \div 10000, (end_date \div 100) % 100)
    ELSE 720

get_lifetime(start_date, end_date) ==
    IF end_date # -1
    THEN LET e == get_ymd(end_date)
             s == get_ymd(start_date)
         IN  calc_dmonth(s[1], s[2], e[1], e[2])
    ELSE 720

Max(a, b) == IF a >= b THEN a ELSE b

\* SetLifecycle with the test entry_time < 0 for entry_time <= 0
SetLifecycle_StrictTest(data, init) ==
    LET entry_time == get_entrytime(init, data.commercial)
        lifetime   == get_lifetime(data.commercial, data.shutdown_date)
    IN  IF entry_time < 0
        THEN [data EXCEPT !.entry_time = 1,
                          !.lifetime = Max(lifetime + entry_time, 0)]
        ELSE [data EXCEPT !.entry_time = entry_time, !.lifetime = lifetime]

\* SetLifecycle that leaves the lifetime as get_lifetime returned it
SetLifecycle_NoDeficit(data, init) ==
    LET entry_time == get_entrytime(init, data.commercial)
        lifetime   == get_lifetime(data.commercial, data.shutdown_date)
    IN  IF entry_time <= 0
        THEN [data EXCEPT !.entry_time = 1, !.lifetime = lifetime]
        ELSE [data EXCEPT !.entry_time = entry_time, !.lifetime = lifetime]

\* the body of the loop of __init__ over one record of reactor_data
SetLifecycle(data, init) ==
    LET entry_time == get_entrytime(init, data.commercial)
        lifetime   == get_lifetime(data.commercial, data.shutdown_date)
    IN  IF entry_time <= 0
        THEN [data EXCEPT !.entry_time = 1,
                          !.lifetime = Max(lifetime + entry_time, 0)]
        ELSE [data EXCEPT !.entry_time = entry_time, !.lifetime = lifetime]

-----------------------------------------------------------------------------
(* from_pris.read_csv.                                                     *)

Str_cancel  == <<"c", "a", "n", "c", "e", "l">>
Str_defer   == <<"d", "e", "f", "e", "r">>
Str_review  == <<"r", "e", "v", "i", "e", "w">>
Str_suspend == <<"s", "u", "s", "p", "e", "n", "d">>
Str_under   == <<"u", "n", "d", "e", "r">>

nono_str_list == <<Str_cancel, Str_defer, Str_review, Str_suspend, Str_under>>

InList(x, list) == \E i \in 1..Len(list) : list[i] = x

\* Deleted without the lower() of the status
Deleted_CaseSensitive(reactor, countries) ==
    \/ ~InList(reactor.country, countries)
    \/ \E i \in 1..Len(nono_str_list) :
           Contains(nono_str_list[i], reactor.status)

\* the test that puts a row's index in indx_list
Deleted(reactor, countries) ==
    \/ ~InList(reactor.country, countries)
    \/ \E i \in 1..Len(nono_str_list) :
           Contains(nono_str_list[i], Lower(reactor.status))

\* np.delete(reactor_array, indx_list, axis=0)
AfterDelete(rows, countries) ==
    SelectSeq(rows, LAMBDA r : ~Deleted(r, countries))

DateFields == <<"const_date", "first_crit", "first_grid", "commercial",
                "shutdown_date">>

\* the date conversion of one row raises
RowRaises(reactor) ==
    \E i \in 1..Len(DateFields) : ~std_date_format(reactor[DateFields[i]]).ok

\* one row after the date conversion; entry_time and lifetime hold what the
\* csv columns of that name held (the model's files hold 0)
Converted(reactor) ==
    [country           |-> reactor.country,
     reactor_name      |-> reactor.reactor_name,
     type              |-> reactor.type,
     net_elec_capacity |-> reactor.net_elec_capacity,
     status            |-> reactor.status,
     const_date        |-> std_date_format(reactor.const_date).val,
     first_crit        |-> std_date_format(reactor.first_crit).val,
     first_grid        |-> std_date_format(reactor.first_grid).val,
     commercial        |-> std_date_format(reactor.commercial).val,
     shutdown_date     |-> std_date_format(reactor.shutdown_date).val,
     entry_time        |-> 0,
     lifetime          |-> 0]

\* the filter of the return statement
AboveResearchSize(row) == row.net_elec_capacity > 100

\* read_csv raises ValueError
ReadCsvRaises(rows, countries) ==
    LET kept == AfterDelete(rows, countries)
    IN  \E i \in 1..Len(kept) : RowRaises(kept[i])

\* the list read_csv returns
read_csv(rows, countries) ==
    LET kept == AfterDelete(rows, countries)
        conv == [i \in 1..Len(kept) |-> Converted(kept[i])]
    IN  SelectSeq(conv, AboveResearchSize)

-----------------------------------------------------------------------------
(* from_pris.refine_name.                                                  *)

\* str.find(c), counted from 1; 0 when c is not in s
Find(s, c) ==
    IF \E i \in 1..Len(s) : s[i] = c
    THEN CHOOSE i \in 1..Len(s) : s[i] = c /\ \A j \in 1..(i - 1) : s[j] # c
    ELSE 0

\* str.replace('&', 'and')
RECURSIVE ReplaceAmp(_)
ReplaceAmp(s) ==
    IF s = <<>> THEN <<>>
    ELSE (IF Head(s) = "&" THEN <<"a", "n", "d">> ELSE <<Head(s)>>)
         \o ReplaceAmp(Tail(s))

refine_name(name) ==
    LET start == Find(name, "(")
        end   == Find(name, ")")
    IN  ReplaceAmp(IF start # 0 /\ end # 0
                   THEN SubSeq(name, 1, start - 1) ELSE name)

-----------------------------------------------------------------------------
(* from_pris.reactor_render. A fragment is the record of the values the    *)
(* code hands to the template it renders. A mass is a fraction             *)
(* [num, den] in kg; round(x, 3) keeps thousandths.                        *)

\* kg_per_assembly, assemblies_per_core, assemblies_per_batch and template
\* of each key of reactor_specs (special = '', so no cyborg or f33 template)
reactor_specs ==
    [AP1000 |-> [template |-> "pwr", kg_num |-> 1225 * 157, kg_den |-> 6600,
                 assemblies_per_core |-> 3, assemblies_per_batch |-> 1],
     BWR    |-> [template |-> "pwr", kg_num |-> 180 * 764, kg_den |-> 4392,
                 assemblies_per_core |-> 4, assemblies_per_batch |-> 1],
     PWR    |-> [template |-> "pwr", kg_num |-> 446 * 193, kg_den |-> 3000,
                 assemblies_per_core |-> 3, assemblies_per_batch |-> 1],
     EPR    |-> [template |-> "pwr", kg_num |-> 467 * 216, kg_den |-> 4800,
                 assemblies_per_core |-> 3, assemblies_per_batch |-> 1],
     SMR    |-> [template |-> "smr", kg_num |-> 299712, kg_den |-> 5000,
                 assemblies_per_core |-> 3, assemblies_per_batch |-> 1]]

\* pow_dict, in the order of its items(); name is the key as characters,
\* as reactor names are
pow_dict ==
    <<[key |-> "AP1000", name |-> <<"A", "P", "1", "0", "0", "0">>, val |-> 1110],
      [key |-> "BWR", name |-> <<"B", "W", "R">>, val |-> 1260],
      [key |-> "PWR", name |-> <<"P", "W", "R">>, val |-> 1000],
      [key |-> "EPR", name |-> <<"E", "P", "R">>, val |-> 1600],
      [key |-> "SMR", name |-> <<"S", "M", "R">>, val |-> 50],
      [key |-> "12_SMR", name |-> <<"1", "2", "_", "S", "M", "R">>, val |-> 600]>>

\* key.replace('12_', '')
SpecKey(key) == IF key = "12_SMR" THEN "SMR" ELSE key

\* round(num / den, 3), to the nearest thousandth
Round3(num, den) ==
    [num |-> (num \div den) * 1000 + (2 * 1000 * (num % den) + den) \div (2 * den),
     den |-> 1000]

\* reactor_render with the boiling-water profile as the fallback
FleetFragment_BwrFallback(data) ==
    LET spec_dict == IF data.type \in DOMAIN reactor_specs
                     THEN reactor_specs[data.type]
                     ELSE reactor_specs["BWR"]
    IN  [template     |-> spec_dict.template,
         country      |-> data.country,
         type         |-> data.type,
         reactor_name |-> refine_name(data.reactor_name),
         assem_size   |-> Round3(spec_dict.kg_num * data.net_elec_capacity,
                                 spec_dict.kg_den),
         n_assem_core |-> spec_dict.assemblies_per_core,
         n_assem_batch |-> spec_dict.assemblies_per_batch,
         capacity     |-> data.net_elec_capacity]

\* the fragment of one record of reactor_data
FleetFragment(data) ==
    IF data.type \in DOMAIN reactor_specs
    THEN LET spec_dict == reactor_specs[data.type]
         IN  [template     |-> spec_dict.template,
              country      |-> data.country,
              type         |-> data.type,
              reactor_name |-> refine_name(data.reactor_name),
              assem_size   |-> Round3(spec_dict.kg_num * data.net_elec_capacity,
                                      spec_dict.kg_den),
              n_assem_core |-> spec_dict.assemblies_per_core,
              n_assem_batch |-> spec_dict.assemblies_per_batch,
              capacity     |-> data.net_elec_capacity]
    ELSE [template     |-> "pwr",
          country      |-> data.country,
          type         |-> data.type,
          reactor_name |-> refine_name(data.reactor_name),
          assem_size   |-> [num |-> 2617 * 193 * data.net_elec_capacity,
                            den |-> 15000],
          n_assem_core |-> 3,
          n_assem_batch |-> 1,
          capacity     |-> data.net_elec_capacity]

\* the fragment of one item of pow_dict; data is the loop variable left by
\* the loop over reactor_data
GenericFragment(item, data) ==
    LET spec_dict == reactor_specs[SpecKey(item.key)]
    IN  [template     |-> spec_dict.template,
         country      |-> data.country,
         type         |-> item.key,
         reactor_name |-> item.name,
         assem_size   |-> Round3(spec_dict.kg_num * item.val, spec_dict.kg_den),
         n_assem_core |-> spec_dict.assemblies_per_core,
         n_assem_batch |-> spec_dict.assemblies_per_batch,
         capacity     |-> item.val]

\* the fragments of the loop over reactor_data, in its order
FleetFragments(fleet) == [i \in 1..Len(fleet) |-> FleetFragment(fleet[i])]

\* the fragments of the loop over pow_dict
GenericFragments(fleet) ==
    [i \in 1..Len(pow_dict) |-> GenericFragment(pow_dict[i], fleet[Len(fleet)])]

-----------------------------------------------------------------------------
(* from_pris.region_render.                                                *)

\* set([data['country'] ... for data in self.reactor_data])
CountrySet(fleet) == {fleet[i].country : i \in 1..Len(fleet)}

\* the orders in which a set may be iterated
Orders(S) ==
    {o \in [1..Cardinality(S) -> S] :
        \A i, j \in 1..Cardinality(S) : i # j => o[i] # o[j]}

\* the inner loop of region_render going through the records last to first
Deployed_Reversed(fleet, country) ==
    LET d == SelectSeq(fleet, LAMBDA q : q.country = country /\ ~(q.lifetime <= 0))
    IN  [i \in 1..Len(d) |-> d[Len(d) + 1 - i]]

\* the records of one country that the inner loop does not skip
Deployed(fleet, country) ==
    SelectSeq(fleet, LAMBDA q : q.country = country /\ ~(q.lifetime <= 0))

\* the four value lists handed to deployinst_template
DeployInst(fleet, country) ==
    LET d == Deployed(fleet, country)
    IN  [prototype  |-> [i \in 1..Len(d) |-> refine_name(d[i].reactor_name)],
         start_time |-> [i \in 1..Len(d) |-> d[i].entry_time],
         number     |-> [i \in 1..Len(d) |-> 1],
         lifetime   |-> [i \in 1..Len(d) |-> d[i].lifetime]]

\* the country is put in empty_country
EmptyCountry(fleet, country) == DeployInst(fleet, country).prototype = <<>>

\* full_str for one iteration order of country_set
region_render(fleet, order) ==
    LET kept == SelectSeq(order, LAMBDA c : ~EmptyCountry(fleet, c))
    IN  [i \in 1..Len(kept) |->
            [country     |-> kept[i],
             country_gov |-> <<kept[i], "_government">>,
             deployinst  |-> DeployInst(fleet, kept[i])]]

-----------------------------------------------------------------------------
(* The inputs of the model.                                                *)

\* no file at self.output_file
NoFile == [written |-> FALSE]

\* std_date_format has not been called directly
NotCalled == [called |-> FALSE, ok |-> FALSE, val |-> 0]

\* "Operational"
St_Operational ==
    <<"O", "p", "e", "r", "a", "t", "i", "o", "n", "a", "l">>

\* "Permanent Shutdown"
St_Shutdown ==
    <<"P", "e", "r", "m", "a", "n", "e", "n", "t", " ", "S", "h",
      "u", "t", "d", "o", "w", "n">>

\* "Under Construction"
St_Construction ==
    <<"U", "n", "d", "e", "r", " ", "C", "o", "n", "s", "t", "r",
      "u", "c", "t", "i", "o", "n">>

\* "Cancelled Construction"
St_Cancelled ==
    <<"C", "a", "n", "c", "e", "l", "l", "e", "d", " ", "C", "o",
      "n", "s", "t", "r", "u", "c", "t", "i", "o", "n">>

\* "Deferred"
St_Deferred ==
    <<"D", "e", "f", "e", "r", "r", "e", "d">>

\* "In Review"
St_Review ==
    <<"I", "n", " ", "R", "e", "v", "i", "e", "w">>

\* "Suspended Construction"
St_Suspended ==
    <<"S", "u", "s", "p", "e", "n", "d", "e", "d", " ", "C", "o",
      "n", "s", "t", "r", "u", "c", "t", "i", "o", "n">>

\* reactor names by row: plain, with a parenthetical suffix, with '&'
RowNames == <<<<"A">>, <<"B", "(", "1", ")">>, <<"C", "&", "D">>, <<"E">>,
              <<"F">>>>

\* two decimal digits of n in 0..99
TwoDigits(n) == <<Digits[(n \div 10) + 1], Digits[(n % 10) + 1]>>

\* the year y in 0..9999 as four digits
YearStr(y) == TwoDigits(y \div 100) \o TwoDigits(y % 100)

\* MM/DD/YYYY
DateStr(m, d, y) == TwoDigits(m) \o <<"/">> \o TwoDigits(d) \o <<"/">> \o YearStr(y)

Countries    == {"France", "Spain"}
InitDates    == {20200101}
CountryLists == {<<"France">>, <<"France", "Spain">>, <<"France", "Italy">>}

\* The kinds of row of the files of Spec: a unit of a known type running
\* since before the start with no shutdown date; a unit of a type that
\* reactor_specs does not hold, shut down on the start date; a unit that
\* starts and shuts down after the start; a unit under construction; a
\* research reactor
RowKinds ==
    {[type |-> "PWR", status |-> St_Operational, net_elec_capacity |-> 900,
      commercial |-> DateStr(6, 20, 2015), shutdown_date |-> <<>>],
     [type |-> "FBR", status |-> St_Shutdown, net_elec_capacity |-> 900,
      commercial |-> DateStr(6, 20, 2015), shutdown_date |-> DateStr(1, 1, 2020)],
     [type |-> "BWR", status |-> St_Operational, net_elec_capacity |-> 900,
      commercial |-> YearStr(2025), shutdown_date |-> YearStr(2030)],
     [type |-> "PWR", status |-> St_Construction, net_elec_capacity |-> 900,
      commercial |-> YearStr(2025), shutdown_date |-> <<>>],
     [type |-> "PWR", status |-> St_Operational, net_elec_capacity |-> 100,
      commercial |-> DateStr(6, 20, 2015), shutdown_date |-> <<>>]}

\* a row of a country and a kind, the name left to its position
Row(c, k) ==
    [country           |-> c,
     type              |-> k.type,
     net_elec_capacity |-> k.net_elec_capacity,
     status            |-> k.status,
     const_date        |-> <<>>,
     first_crit        |-> <<>>,
     first_grid        |-> <<>>,
     commercial        |-> k.commercial,
     shutdown_date     |-> k.shutdown_date]

RowPool == {Row(c, k) : c \in Countries, k \in RowKinds}

Named(row, i) ==
    [country           |-> row.country,
     reactor_name      |-> RowNames[i],
     type              |-> row.type,
     net_elec_capacity |-> row.net_elec_capacity,
     status            |-> row.status,
     const_date        |-> row.const_date,
     first_crit        |-> row.first_crit,
     first_grid        |-> row.first_grid,
     commercial        |-> row.commercial,
     shutdown_date     |-> row.shutdown_date]

\* The files of at most max rows of pool. np.genfromtxt squeezes the table
\* of a file of one row to a 0-d array, which no loop of read_csv can
\* iterate: the files of the model hold no row, or two or more.
Files(pool, max) ==
    UNION {{[i \in 1..n |-> Named(f[i], i)] : f \in [1..n -> pool]} :
           n \in (0..max) \ {1}}

-----------------------------------------------------------------------------
(* The state after the arguments of from_pris(...) are stored.             *)

Fresh ==
    /\ reactor_data = <<>>
    /\ reactor_str = <<>>
    /\ region_str = <<>>
    /\ done_generic = FALSE
    /\ output_file = NoFile
    /\ err = "none"
    /\ runs = 1
    /\ prev_output = NoFile

Init ==
    /\ csv_file \in Files(RowPool, MaxRows)
    /\ init_date \in InitDates
    /\ country_list \in CountryLists
    /\ pc = "read_csv"
    /\ date_string = <<>>
    /\ date = NotCalled
    /\ Fresh

-----------------------------------------------------------------------------
(* The steps of from_pris.__init__.                                        *)

\* read_csv in a pipeline that opens the output file for writing before it
\* loads the rows
ReadCsv_OpenFirst ==
    /\ pc = "read_csv"
    /\ output_file' = [written |-> TRUE, startyear |-> 0, startmonth |-> 0,
                       reactor_input |-> <<>>, region_input |-> <<>>]
    /\ IF ReadCsvRaises(csv_file, country_list)
       THEN /\ pc' = "failed"
            /\ err' = "ValueError"
            /\ UNCHANGED reactor_data
       ELSE /\ pc' = "lifecycle"
            /\ reactor_data' = read_csv(csv_file, country_list)
            /\ UNCHANGED err
    /\ UNCHANGED <<csv_file, init_date, country_list, reactor_str, region_str,
                   done_generic, runs, prev_output, date_string, date>>

\* line 46: self.reactor_data = self.read_csv()
ReadCsv ==
    /\ pc = "read_csv"
    /\ IF ReadCsvRaises(csv_file, country_list)
       THEN /\ pc' = "failed"
            /\ err' = "ValueError"
            /\ UNCHANGED reactor_data
       ELSE /\ pc' = "lifecycle"
            /\ reactor_data' = read_csv(csv_file, country_list)
            /\ UNCHANGED err
    /\ UNCHANGED <<csv_file, init_date, country_list, reactor_str, region_str,
                   done_generic, output_file, runs, prev_output, date_string,
                   date>>

\* lines 47-59: the loop that sets entry_time and lifetime
Lifecycle ==
    /\ pc = "lifecycle"
    /\ reactor_data' = [i \in 1..Len(reactor_data) |->
                           SetLifecycle(reactor_data[i], init_date)]
    /\ pc' = "reactor_render"
    /\ UNCHANGED <<csv_file, init_date, country_list, reactor_str, region_str,
                   done_generic, output_file, err, runs, prev_output,
                   date_string, date>>

\* line 61: self.reactor_render(). With no record the loop variable data is
\* unbound when the loop over pow_dict reads it: UnboundLocalError
ReactorRender ==
    /\ pc = "reactor_render"
    /\ IF done_generic
       THEN /\ reactor_str' = FleetFragments(reactor_data)
            /\ pc' = "region_render"
            /\ UNCHANGED <<done_generic, err>>
       ELSE IF reactor_data = <<>>
       THEN /\ reactor_str' = <<>>
            /\ pc' = "failed"
            /\ err' = "UnboundLocalError"
            /\ UNCHANGED done_generic
       ELSE /\ reactor_str' = FleetFragments(reactor_data)
                                 \o GenericFragments(reactor_data)
            /\ done_generic' = TRUE
            /\ pc' = "region_render"
            /\ UNCHANGED err
    /\ UNCHANGED <<csv_file, init_date, country_list, reactor_data, region_str,
                   output_file, runs, prev_output, date_string, date>>

\* line 62: self.region_render(). The order in which the set country_set is
\* iterated is not fixed by the language: any order
RegionRender ==
    /\ pc = "region_render"
    /\ \E order \in Orders(CountrySet(reactor_data)) :
           region_str' = region_render(reactor_data, order)
    /\ pc' = "input_render"
    /\ UNCHANGED <<csv_file, init_date, country_list, reactor_data, reactor_str,
                   done_generic, output_file, err, runs, prev_output,
                   date_string, date>>

\* what input_render hands to input_template and writes
Document ==
    [written       |-> TRUE,
     startyear     |-> get_ymd(init_date)[1],
     startmonth    |-> get_ymd(init_date)[2],
     reactor_input |-> reactor_str,
     region_input  |-> region_str]

\* line 63: self.input_render()
InputRender ==
    /\ pc = "input_render"
    /\ output_file' = Document
    /\ pc' = "done"
    /\ UNCHANGED <<csv_file, init_date, country_list, reactor_data, reactor_str,
                   region_str, done_generic, err, runs, prev_output,
                   date_string, date>>

\* from_pris(...) is called again, in a new process, with the same arguments
\* and the same csv file
Rerun ==
    /\ pc \in {"done", "failed"}
    /\ runs < MaxRuns
    /\ runs' = runs + 1
    /\ prev_output' = output_file
    /\ reactor_data' = <<>>
    /\ reactor_str' = <<>>
    /\ region_str' = <<>>
    /\ done_generic' = FALSE
    /\ err' = "none"
    /\ pc' = "read_csv"
    /\ UNCHANGED <<csv_file, init_date, country_list, output_file, date_string,
                   date>>

Next ==
    \/ ReadCsv
    \/ Lifecycle
    \/ ReactorRender
    \/ RegionRender
    \/ InputRender
    \/ Rerun

Spec == Init /\ [][Next]_vars

-----------------------------------------------------------------------------
(* SpecLoad: the pipeline on files of two rows, one of which ranges over   *)
(* every status, country and capacity.                                     *)

LoadStatuses == {St_Operational, St_Shutdown, St_Construction, St_Cancelled,
                 St_Deferred, St_Review, St_Suspended}

LoadCapacities == {100, 101, 900}

LoadPool ==
    {Row(c, [type |-> "PWR", status |-> st, net_elec_capacity |-> n,
             commercial |-> DateStr(6, 20, 2015), shutdown_date |-> <<>>]) :
        c \in Countries, st \in LoadStatuses, n \in LoadCapacities}

\* the other row of the files of SpecLoad: an operating French unit
LoadOther ==
    Row("France", [type |-> "BWR", status |-> St_Operational,
                   net_elec_capacity |-> 900, commercial |-> YearStr(2025),
                   shutdown_date |-> YearStr(2030)])

\* a row of LoadPool before or after the other row
LoadFiles ==
    {<<Named(r, 1), Named(LoadOther, 2)>> : r \in LoadPool}
        \cup {<<Named(LoadOther, 1), Named(r, 2)>> : r \in LoadPool}

InitLoad ==
    /\ csv_file \in LoadFiles
    /\ init_date \in InitDates
    /\ country_list \in CountryLists
    /\ pc = "read_csv"
    /\ date_string = <<>>
    /\ date = NotCalled
    /\ Fresh

SpecLoad == InitLoad /\ [][Next]_vars

-----------------------------------------------------------------------------
(* SpecLife: the pipeline on files of one operating French unit whose      *)
(* commercial and shutdown dates range over days on both sides of the      *)
(* 16th, months and years on both sides of the start date, and more than   *)
(* 720 months before it, and of one Spanish unit that is not requested.    *)

LifeYears  == {1950, 2019, 2020, 2021}
LifeMonths == {1, 12}
LifeDays   == {1, 16, 17}

LifeInitDates == {20200101, 20200117, 20191220}

LifeCommercials ==
    {DateStr(m, d, y) : m \in LifeMonths, d \in LifeDays, y \in LifeYears}
        \cup {DateStr(6, 20, 2015), YearStr(2020), <<>>}

LifeShutdowns ==
    {DateStr(m, d, y) : m \in LifeMonths, d \in {1, 17}, y \in LifeYears \ {1950}}
        \cup {<<>>}

LifePool ==
    {Row("France", [type |-> "PWR", status |-> St_Operational,
                    net_elec_capacity |-> 900, commercial |-> c,
                    shutdown_date |-> sd]) :
        c \in LifeCommercials, sd \in LifeShutdowns}

\* the other row of the files of SpecLife
LifeOther ==
    Row("Spain", [type |-> "PWR", status |-> St_Operational,
                  net_elec_capacity |-> 900, commercial |-> YearStr(2020),
                  shutdown_date |-> <<>>])

InitLife ==
    /\ csv_file \in {<<Named(r, 1), Named(LifeOther, 2)>> : r \in LifePool}
    /\ init_date \in LifeInitDates
    /\ country_list = <<"France">>
    /\ pc = "read_csv"
    /\ date_string = <<>>
    /\ date = NotCalled
    /\ Fresh

SpecLife == InitLife /\ [][Next]_vars

-----------------------------------------------------------------------------
(* SpecDate: std_date_format called on one string.                         *)

DateAlphabet == {"0", "1", "2", "/", "-", "a"}

\* the strings over DateAlphabet of length n
StringsOfLen(n) == [1..n -> DateAlphabet]

DateYears == {1950, 1999, 2000, 2015, 2016, 2020}

\* longer strings: the two forms of January 1 of each year, dates that are
\* and are not in the calendar, digit strings of other lengths, strings
\* that are no number, a fifth kind of date
LongDateStrings ==
    {YearStr(y) : y \in DateYears}
        \cup {DateStr(1, 1, y) : y \in DateYears}
        \cup {<<"1", "/", "1", "/">> \o YearStr(y) : y \in DateYears}
        \cup {DateStr(6, 20, 2015), DateStr(2, 29, 2016), DateStr(2, 29, 2015),
              DateStr(2, 30, 2015), DateStr(13, 1, 2015), DateStr(12, 31, 1999),
              DateStr(1, 1, 0), YearStr(0),
              <<"2", "0", "1", "5", "0", "6">>,
              <<"2", "0", "1", "5", "0", "6", "2", "0">>,
              <<"2", "0", "1", "5", "1">>,
              <<"a", "b", "c", "d">>, <<"-", "0", "0", "1">>,
              YearStr(2015) \o <<"/">> \o TwoDigits(6) \o <<"/">> \o TwoDigits(20),
              <<"0", "1", "/", "2", "0", "1", "5">>}

DateStrings ==
    UNION {StringsOfLen(n) : n \in 0..MaxStrLen} \cup LongDateStrings

InitDate ==
    /\ date_string \in DateStrings
    /\ date = NotCalled
    /\ csv_file = <<>>
    /\ init_date \in InitDates
    /\ country_list = <<>>
    /\ pc = "idle"
    /\ Fresh

\* std_date_format(date_string)
StdDateFormat ==
    /\ pc = "idle"
    /\ ~date.called
    /\ date' = [called |-> TRUE, ok |-> std_date_format(date_string).ok,
                val |-> std_date_format(date_string).val]
    /\ UNCHANGED <<csv_file, init_date, country_list, reactor_data, reactor_str,
                   region_str, done_generic, output_file, pc, err, runs,
                   prev_output, date_string>>

SpecDate == InitDate /\ [][StdDateFormat]_vars

-----------------------------------------------------------------------------
(* SpecAbort: the pipeline on files of two rows whose commercial date may  *)
(* be no date, over an output path that may hold the document of an        *)
(* earlier call.                                                           *)

\* a date column that std_date_format does not accept
BadDate == <<"a">>

AbortPool ==
    {Row(c, [type |-> "PWR", status |-> st, net_elec_capacity |-> n,
             commercial |-> d, shutdown_date |-> <<>>]) :
        c \in Countries, st \in {St_Operational, St_Cancelled},
        n \in {100, 900}, d \in {DateStr(6, 20, 2015), BadDate}}

AbortFiles == {<<Named(f[1], 1), Named(f[2], 2)>> : f \in [1..2 -> AbortPool]}

\* what open(self.output_file, 'w') finds at the path: no file, or the
\* document an earlier call with other arguments wrote there
OldFile ==
    [written       |-> TRUE,
     startyear     |-> get_ymd(20190101)[1],
     startmonth    |-> get_ymd(20190101)[2],
     reactor_input |-> <<>>,
     region_input  |-> <<>>]

InitAbort ==
    /\ csv_file \in AbortFiles
    /\ init_date \in InitDates
    /\ country_list = <<"France">>
    /\ pc = "read_csv"
    /\ date_string = <<>>
    /\ date = NotCalled
    /\ reactor_data = <<>>
    /\ reactor_str = <<>>
    /\ region_str = <<>>
    /\ done_generic = FALSE
    /\ output_file \in {NoFile, OldFile}
    /\ err = "none"
    /\ runs = 1
    /\ prev_output = output_file

SpecAbort == InitAbort /\ [][Next]_vars

-----------------------------------------------------------------------------
(* The properties.                                                         *)

\* the loop of __init__ has set entry_time and lifetime of every record
LifecycleDone == pc \in {"reactor_render", "region_render", "input_render", "done"}

\* months since year 0 of a date yyyymmdd, a day above 16 counted in the
\* next month
RoundedMonth(d) ==
    12 * (d \div 10000) + ((d \div 100) % 100) + (IF d % 100 > 16 THEN 1 ELSE 0)

\* month_delta of two dates, the rounding applied to both
MonthDelta(from, to) == RoundedMonth(to) - RoundedMonth(from)

\* the raw month offset from the scenario start to the commercial date
RawOffset(data) == MonthDelta(init_date, data.commercial)

\* the deployment schedules of a sequence of country fragments
StartTimes(region) ==
    UNION {{region[i].deployinst.start_time[j] :
               j \in 1..Len(region[i].deployinst.start_time)} :
           i \in 1..Len(region)}

\* C1: every entry time in a deployment schedule built by region_render,
\* and in the one written to the output file, is at least 1, and a record
\* whose raw month offset from the scenario start to the commercial date
\* is <= 0 is stored with entry_time 1.
C1_EntryTimeAtLeastOne ==
    /\ \A t \in StartTimes(region_str) : t >= 1
    /\ output_file.written =>
           \A t \in StartTimes(output_file.region_input) : t >= 1
    /\ LifecycleDone =>
           \A i \in 1..Len(reactor_data) :
               RawOffset(reactor_data[i]) <= 0 => reactor_data[i].entry_time = 1

\* a unit whose commercial month is the start month is deployed at time 1
C1_Witness ==
    /\ pc = "done"
    /\ Len(reactor_data) = 1
    /\ RawOffset(reactor_data[1]) = 0
    /\ Len(region_str) = 1
    /\ region_str[1].deployinst.start_time = <<1>>

\* the fragments of reactor_str and the deployment entries of region_str
\* that carry the name of a record
FragmentsOf(data) ==
    {k \in 1..Len(reactor_str) :
        reactor_str[k].reactor_name = refine_name(data.reactor_name)}

Prototypes(region) ==
    UNION {{region[i].deployinst.prototype[j] :
               j \in 1..Len(region[i].deployinst.prototype)} :
           i \in 1..Len(region)}

\* C2: a record whose shutdown date is the scenario start date has
\* lifetime 0, reactor_render appends no fragment for it and region_render
\* emits no deployment entry for it.
C2_ShutdownAtStartExcluded ==
    \A i \in 1..Len(reactor_data) :
        reactor_data[i].shutdown_date = init_date =>
            /\ LifecycleDone => reactor_data[i].lifetime = 0
            /\ pc \in {"region_render", "input_render", "done"} =>
                   FragmentsOf(reactor_data[i]) = {}
            /\ pc \in {"input_render", "done"} =>
                   refine_name(reactor_data[i].reactor_name)
                       \notin Prototypes(region_str)

\* C3 as stated: the lifetime of every record with a known shutdown date is
\* the month delta from the scenario start to the shutdown date.
C3_LifetimeFromScenarioStart ==
    LifecycleDone =>
        \A i \in 1..Len(reactor_data) :
            reactor_data[i].shutdown_date # -1 =>
                reactor_data[i].lifetime =
                    MonthDelta(init_date, reactor_data[i].shutdown_date)

\* C3 as amended: the lifetime of a record with a known shutdown date is
\* the month delta from the commercial date to the shutdown date when the
\* raw entry offset is above 0, and otherwise the month delta from the
\* scenario start to the shutdown date, or 0 if that is negative.
C3_LifetimeOfKnownShutdown ==
    LifecycleDone =>
        \A i \in 1..Len(reactor_data) :
            reactor_data[i].shutdown_date # -1 =>
                reactor_data[i].lifetime =
                    IF RawOffset(reactor_data[i]) > 0
                    THEN MonthDelta(reactor_data[i].commercial,
                                    reactor_data[i].shutdown_date)
                    ELSE Max(MonthDelta(init_date, reactor_data[i].shutdown_date), 0)

\* a unit that starts after the scenario start and shuts down later: its
\* lifetime counts from its commercial date
C3_Witness ==
    /\ pc = "done"
    /\ Len(reactor_data) = 1
    /\ reactor_data[1].shutdown_date # -1
    /\ RawOffset(reactor_data[1]) > 0
    /\ reactor_data[1].lifetime > 0
    /\ reactor_data[1].lifetime
           < MonthDelta(init_date, reactor_data[1].shutdown_date)

\* C4 as stated: the lifetime of a record with no shutdown date is 720 when
\* the raw entry offset is >= 0 and 720 plus the offset when it is
\* negative; start 2020-01-01 and commercial date 2015-06-20 give offset
\* -54, entry_time 1 and lifetime 666.
C4_AssumedLifetime ==
    LifecycleDone =>
        \A i \in 1..Len(reactor_data) :
            reactor_data[i].shutdown_date = -1 =>
                /\ reactor_data[i].lifetime =
                       IF RawOffset(reactor_data[i]) >= 0 THEN 720
                       ELSE 720 + RawOffset(reactor_data[i])
                /\ (init_date = 20200101 /\ reactor_data[i].commercial = 20150620) =>
                       /\ RawOffset(reactor_data[i]) = -54
                       /\ reactor_data[i].entry_time = 1
                       /\ reactor_data[i].lifetime = 666

\* C4 as amended: the lifetime of a record with no shutdown date is 720 when
\* the raw entry offset is >= 0, and 720 plus the offset, or 0 if that is
\* negative, when the offset is negative; start 2020-01-01 and commercial
\* date 2015-06-20 give offset -54, entry_time 1 and lifetime 666.
C4_AssumedLifetimeFloored ==
    LifecycleDone =>
        \A i \in 1..Len(reactor_data) :
            reactor_data[i].shutdown_date = -1 =>
                /\ reactor_data[i].lifetime =
                       IF RawOffset(reactor_data[i]) >= 0 THEN 720
                       ELSE Max(720 + RawOffset(reactor_data[i]), 0)
                /\ (init_date = 20200101 /\ reactor_data[i].commercial = 20150620) =>
                       /\ RawOffset(reactor_data[i]) = -54
                       /\ reactor_data[i].entry_time = 1
                       /\ reactor_data[i].lifetime = 666

\* the reference scenario: start 2020-01-01, commercial date 2015-06-20, no
\* shutdown date
C4_Witness ==
    /\ pc = "done"
    /\ init_date = 20200101
    /\ Len(reactor_data) = 1
    /\ reactor_data[1].commercial = 20150620
    /\ reactor_data[1].shutdown_date = -1
    /\ reactor_data[1].lifetime = 666
    /\ region_str[1].deployinst.lifetime = <<666>>

\* a country of country_list has no row in the csv file
ZeroRowCountry ==
    \E k \in 1..Len(country_list) :
        \A i \in 1..Len(csv_file) : csv_file[i].country # country_list[k]

\* C5: when a country of the requested list has no row in the source, the
\* run does not complete and the output file is not written.
C5_ZeroRowCountryFails ==
    ZeroRowCountry => (pc # "done" /\ ~output_file.written)

\* the records of the file after read_csv and the loop of __init__
Processed ==
    LET loaded == read_csv(csv_file, country_list)
    IN  [i \in 1..Len(loaded) |-> SetLifecycle(loaded[i], init_date)]

\* a country of the list with rows in the source, none of which is left
\* with a lifetime above 0
FilteredOut(c) ==
    /\ InList(c, country_list)
    /\ \E i \in 1..Len(csv_file) : csv_file[i].country = c
    /\ Deployed(Processed, c) = <<>>

RegionCountries(region) == {region[i].country : i \in 1..Len(region)}

\* C6: a country of the list that is in the source and whose rows are all
\* filtered out or have lifetime <= 0 gets no country fragment and raises
\* no error, also when no record at all is left.
C6_FilteredCountrySilent ==
    \A c \in Countries :
        FilteredOut(c) =>
            /\ pc # "failed"
            /\ err = "none"
            /\ c \notin RegionCountries(region_str)
            /\ output_file.written =>
                   c \notin RegionCountries(output_file.region_input)

\* C7: a second run on the same rows and configuration writes the text the
\* first run wrote.
C7_RerunSameOutput ==
    (runs > 1 /\ pc = "done" /\ prev_output.written) => output_file = prev_output

\* the statuses of units that are cancelled, deferred, under review,
\* suspended or under construction
NotBuiltStatuses ==
    {St_Cancelled, St_Deferred, St_Review, St_Suspended, St_Construction}

\* C8 as stated: every record read_csv returns has a country of the list, a
\* capacity above 100 and a status that is none of cancelled, deferred,
\* under review, suspended, under construction, permanently shut down.
C8_LoadedRecordsOperating ==
    \A i \in 1..Len(reactor_data) :
        /\ InList(reactor_data[i].country, country_list)
        /\ reactor_data[i].net_elec_capacity > 100
        /\ reactor_data[i].status \notin NotBuiltStatuses \cup {St_Shutdown}

\* C8 as amended: every record read_csv returns has a country of the list,
\* a capacity above 100 and a status that is none of cancelled, deferred,
\* under review, suspended, under construction.
C8_LoadedRecordsBuilt ==
    \A i \in 1..Len(reactor_data) :
        /\ InList(reactor_data[i].country, country_list)
        /\ reactor_data[i].net_elec_capacity > 100
        /\ reactor_data[i].status \notin NotBuiltStatuses

\* read_csv has returned both rows of the file, one of them a permanently
\* shut down unit of 101 MW
C8_Witness ==
    /\ pc = "lifecycle"
    /\ Len(csv_file) = 2
    /\ Len(reactor_data) = 2
    /\ \E i \in 1..2 :
           /\ reactor_data[i].status = St_Shutdown
           /\ reactor_data[i].net_elec_capacity = 101

\* a full calendar date MM/DD/YYYY, a 4-digit year or the empty string
WellFormedDate(s) ==
    \/ s = <<>>
    \/ Len(s) = 4 /\ AllDigits(s)
    \/ Count(s, "/") = 2 /\ StrptimeOk(s)

\* C9: std_date_format raises on every input that is not a full calendar
\* date, a 4-digit year or the empty string.
C9_MalformedDateRaises ==
    (date.called /\ ~WellFormedDate(date_string)) => ~date.ok

\* C10: the year-only form of a year and the full date of its January 1
\* give the same value, and -1 is returned for the empty string and for no
\* other input.
C10_YearFormsAgreeSentinelUnique ==
    date.called =>
        /\ \A y \in DateYears :
               date_string \in {YearStr(y), DateStr(1, 1, y)} =>
                   (date.ok /\ date.val = 10000 * y + 101)
        /\ (date.ok /\ date.val = -1) <=> (date_string = <<>>)

\* reactor_render has been called in this run
ReactorRenderCalled ==
    \/ pc \in {"region_render", "input_render", "done"}
    \/ pc = "failed" /\ err = "UnboundLocalError"

\* the fragments of reactor_str after those of the records
ReferenceFragments ==
    SubSeq(reactor_str, Len(reactor_data) + 1, Len(reactor_str))

ReferenceClasses == {"AP1000", "BWR", "PWR", "EPR", "SMR", "12_SMR"}

\* C11: in every run, whatever the fleet (the empty one included),
\* reactor_render emits exactly one fragment per reference reactor class,
\* and the values of those fragments are the ones any other fleet gives:
\* they depend on no fleet record.
C11_ReferenceFragmentsFleetIndependent ==
    ReactorRenderCalled =>
        /\ Len(ReferenceFragments) = Cardinality(ReferenceClasses)
        /\ \A c \in ReferenceClasses :
               Cardinality({k \in 1..Len(ReferenceFragments) :
                               ReferenceFragments[k].type = c}) = 1
        /\ \A r \in RowPool :
               ReferenceFragments = GenericFragments(<<Converted(Named(r, 1))>>)

\* the records whose type is no key of reactor_specs
UnknownType(data) == data.type \notin DOMAIN reactor_specs

\* C12: a record whose type is no key of reactor_specs does not fail the
\* run, and reactor_render appends exactly one fragment for it, at its
\* position, with the PWR template, 3 assemblies per core, 1 per batch and
\* an assembly size of 523.4 * 193 / 3000 times its capacity.
C12_UnknownTypeFallback ==
    \A i \in 1..Len(reactor_data) :
        UnknownType(reactor_data[i]) =>
            /\ pc # "failed"
            /\ err = "none"
            /\ pc \in {"region_render", "input_render", "done"} =>
                   /\ Len(reactor_str) = Len(reactor_data) + Len(pow_dict)
                   /\ FragmentsOf(reactor_data[i]) = {i}
                   /\ reactor_str[i].template = "pwr"
                   /\ reactor_str[i].type = reactor_data[i].type
                   /\ reactor_str[i].country = reactor_data[i].country
                   /\ reactor_str[i].n_assem_core = 3
                   /\ reactor_str[i].n_assem_batch = 1
                   /\ reactor_str[i].capacity = reactor_data[i].net_elec_capacity
                   /\ reactor_str[i].assem_size =
                          [num |-> 2617 * 193 * reactor_data[i].net_elec_capacity,
                           den |-> 5 * 3000]

\* a run that ends with the file written and a fragment of a fast breeder
\* unit next to one of a known type
C12_Witness ==
    /\ pc = "done"
    /\ output_file.written
    /\ Len(reactor_data) = 2
    /\ \E i, j \in 1..2 :
           /\ UnknownType(reactor_data[i])
           /\ ~UnknownType(reactor_data[j])
           /\ output_file.reactor_input[i].type = "FBR"
           /\ output_file.reactor_input[i].template = "pwr"

\* C13: the output file is written once in a run, by the last step, after
\* the rows are loaded, their entry times and lifetimes set, and the
\* reactor and region fragments rendered: until the run is done the path
\* holds what it held when the run began, a failed run leaves it so, and a
\* run that is done has put there the document assembled from the
\* fragments of all the loaded records.
C13_SingleWriteAtEnd ==
    /\ pc # "done" => output_file = prev_output
    /\ pc = "done" =>
           /\ output_file = Document
           /\ output_file.reactor_input =
                  FleetFragments(Processed) \o GenericFragments(Processed)
           /\ \E order \in Orders(CountrySet(Processed)) :
                  output_file.region_input = region_render(Processed, order)

\* a first run that is done has replaced the document the path held
C13_Witness ==
    /\ pc = "done"
    /\ runs = 1
    /\ prev_output = OldFile
    /\ output_file.written
    /\ output_file # OldFile
    /\ Len(output_file.region_input) = 1

\* the row of the csv file a loaded record comes from
RowOf(data) ==
    CHOOSE k \in 1..Len(csv_file) : csv_file[k].reactor_name = data.reactor_name

\* the loaded records of a country that have a lifetime above 0
DeployedRecords(c) ==
    {i \in 1..Len(reactor_data) :
        reactor_data[i].country = c /\ reactor_data[i].lifetime > 0}

\* the place of record i among the records of S
Rank(i, S) == Cardinality({k \in S : k <= i})

\* the deployment list d holds the records of S, each once, in their order
HoldsInOrder(d, S) ==
    /\ Len(d.prototype) = Cardinality(S)
    /\ Len(d.start_time) = Cardinality(S)
    /\ Len(d.number) = Cardinality(S)
    /\ Len(d.lifetime) = Cardinality(S)
    /\ \A i \in S :
           /\ d.prototype[Rank(i, S)] = refine_name(reactor_data[i].reactor_name)
           /\ d.start_time[Rank(i, S)] = reactor_data[i].entry_time
           /\ d.number[Rank(i, S)] = 1
           /\ d.lifetime[Rank(i, S)] = reactor_data[i].lifetime

\* C14: the loaded records are in the order of the rows of the file, the
\* fragment at place i of reactor_str is the one of the record at place i,
\* and the deployment list of each country fragment holds exactly the
\* records of that country with a lifetime above 0, each once with number
\* 1, in the order of the loaded records.
C14_FleetRowOrder ==
    /\ \A i, j \in 1..Len(reactor_data) :
           i < j => RowOf(reactor_data[i]) < RowOf(reactor_data[j])
    /\ pc \in {"region_render", "input_render", "done"} =>
           \A i \in 1..Len(reactor_data) :
               /\ reactor_str[i].reactor_name
                      = refine_name(reactor_data[i].reactor_name)
               /\ reactor_str[i].country = reactor_data[i].country
               /\ reactor_str[i].type = reactor_data[i].type
    /\ pc \in {"input_render", "done"} =>
           \A k \in 1..Len(region_str) :
               HoldsInOrder(region_str[k].deployinst,
                            DeployedRecords(region_str[k].country))
    /\ pc = "done" =>
           /\ output_file.reactor_input = reactor_str
           /\ output_file.region_input = region_str

\* two units of one country, both with a lifetime above 0, are deployed in
\* the order of their rows
C14_Witness ==
    /\ pc = "done"
    /\ Len(reactor_data) = 2
    /\ reactor_data[1].country = reactor_data[2].country
    /\ reactor_data[1].lifetime > 0
    /\ reactor_data[2].lifetime > 0
    /\ reactor_data[1].type # reactor_data[2].type
    /\ Len(output_file.region_input) = 1
    /\ output_file.region_input[1].deployinst.prototype = <<<<"A">>, <<"B">>>>

\* a row that the country, status or capacity filter of read_csv drops
DroppedByFilter(row) ==
    \/ Deleted(row, country_list)
    \/ ~AboveResearchSize(row)

\* C15: the dates of a row are converted only after the row has passed the
\* country, status and capacity filters: when every row with a date that
\* std_date_format does not accept is dropped by one of those filters (a
\* row of capacity <= 100 for one), read_csv does not raise and the run is
\* not aborted.
C15_FilteredRowDateIgnored ==
    (\A i \in 1..Len(csv_file) :
         RowRaises(csv_file[i]) => DroppedByFilter(csv_file[i]))
        => ~(pc = "failed" /\ err = "ValueError")

\* C16: for every start date that is a calendar date, the start month
\* written to the document is in 1..12 and the start year is the calendar
\* year of that month, also when a day above 16 moves a date of December
\* to the next month.
C16_StartMonthInCalendar ==
    output_file.written =>
        /\ output_file.startmonth \in 1..12
        /\ output_file.startmonth = ((RoundedMonth(init_date) - 1) % 12) + 1
        /\ output_file.startyear = (RoundedMonth(init_date) - 1) \div 12

=============================================================================
